---- MODULE Spec2Model ----
(***************************************************************************)
(* Model of ngcluster/evaluate.py: fom, aggregate_fom, rand_index and      *)
(* silhouette_widths, with the caller of aggregate_fom in main.py.         *)
(*                                                                         *)
(* Floating-point numbers are modelled as exact extended rationals         *)
(* <<n, d>>: d > 0 is the finite value n/d in lowest terms, <<1, 0>> and   *)
(* <<-1, 0>> are +inf and -inf, <<0, 0>> is NaN.  A square root is kept    *)
(* symbolically as [rad |-> q], the non-negative root of the rational q.   *)
(* A call ends in [kind |-> "return", value |-> v] or in                   *)
(* [kind |-> "raise", error |-> name].                                     *)
(***************************************************************************)
EXTENDS Integers, Sequences, FiniteSets, TLC

VARIABLES pc, clusters, hidden_data, adjust, X, Y, dmatrix, data, e, result,
          calls, outcome, swapped

vars == <<pc, clusters, hidden_data, adjust, X, Y, dmatrix, data, e, result,
          calls, outcome, swapped>>

(***************************************************************************)
(* Bounds of the model.                                                    *)
(***************************************************************************)
MaxGenes == 4
MaxLabel == 1
RandGenes == 3
SilGenes == 3
MaxDist == 2
AggGenes == 2
MaxCols == 3

\* Held-out expression values offered to fom.
HiddenValues == {1, 3, 5}
\* Columns of expression values offered to aggregate_fom, for n genes.
DataColumns(n) ==
    {[r \in 1..n |-> 0], [r \in 1..n |-> r], [r \in 1..n |-> r * r]}

Labels == -1 .. MaxLabel

(***************************************************************************)
(* Outcomes of a call.                                                     *)
(***************************************************************************)
Return(v) == [kind |-> "return", value |-> v]
Raise(err) == [kind |-> "raise", error |-> err]
NotCalled == [kind |-> "none"]

Returned(o) == o.kind = "return"
Raised(o, err) == o.kind = "raise" /\ o.error = err

(***************************************************************************)
(* Floating-point arithmetic.                                              *)
(***************************************************************************)
Abs(a) == IF a < 0 THEN -a ELSE a

RECURSIVE Gcd(_, _)
Gcd(a, b) == IF b = 0 THEN a ELSE Gcd(b, a % b)

\* The float n/d, d # 0, in lowest terms with a positive denominator.
Rat(n, d) ==
    LET s == IF d < 0 THEN -1 ELSE 1
        g == Gcd(Abs(n), Abs(d))
    IN  <<(s * n) \div g, (s * d) \div g>>

Float(n) == <<n, 1>>
NaN == <<0, 0>>
Inf == <<1, 0>>
NegInf == <<-1, 0>>

IsNaN(x) == x = NaN
IsFinite(x) == x[2] > 0
Sign(x) == IF x[1] > 0 THEN 1 ELSE IF x[1] < 0 THEN -1 ELSE 0

FAdd(x, y) ==
    IF IsNaN(x) \/ IsNaN(y) THEN NaN
    ELSE IF IsFinite(x) /\ IsFinite(y)
         THEN Rat(x[1] * y[2] + y[1] * x[2], x[2] * y[2])
    ELSE IF IsFinite(x) THEN y
    ELSE IF IsFinite(y) THEN x
    ELSE IF x = y THEN x ELSE NaN

FNeg(x) == <<-x[1], x[2]>>

FSub(x, y) == FAdd(x, FNeg(y))

FMul(x, y) ==
    IF IsNaN(x) \/ IsNaN(y) THEN NaN
    ELSE IF IsFinite(x) /\ IsFinite(y) THEN Rat(x[1] * y[1], x[2] * y[2])
    ELSE IF Sign(x) * Sign(y) = 0 THEN NaN
    ELSE <<Sign(x) * Sign(y), 0>>

\* x < y on floats: false when either side is NaN.
FLess(x, y) ==
    IF IsNaN(x) \/ IsNaN(y) THEN FALSE
    ELSE IF IsFinite(x) /\ IsFinite(y) THEN x[1] * y[2] < y[1] * x[2]
    ELSE IF IsFinite(x) THEN y = Inf
    ELSE IF IsFinite(y) THEN x = NegInf
    ELSE x = NegInf /\ y = Inf

\* IEEE division x / y: what numpy scalars give, and what any float division
\* gives when the divisor is not zero.
FDivIEEE(x, y) ==
    IF IsNaN(x) \/ IsNaN(y) THEN NaN
    ELSE IF IsFinite(y) /\ y[1] = 0
         THEN (IF Sign(x) = 0 THEN NaN ELSE <<Sign(x), 0>>)
    ELSE IF IsFinite(x) /\ IsFinite(y) THEN Rat(x[1] * y[2], x[2] * y[1])
    ELSE IF IsFinite(x) THEN Float(0)
    ELSE IF IsFinite(y) THEN <<Sign(x) * Sign(y), 0>>
    ELSE NaN

\* x / y on Python floats, and on floats inside a numba nopython function
\* (error model 'python'): a zero divisor raises ZeroDivisionError.
FDiv(x, y) ==
    IF IsFinite(y) /\ y[1] = 0 THEN Raise("ZeroDivisionError")
    ELSE Return(FDivIEEE(x, y))

\* Python's max(a, b): b if b > a, else a.
FMax(a, b) == IF FLess(a, b) THEN b ELSE a

\* math.sqrt(x): a negative argument is a math domain error.
Sqrt(x) ==
    IF IsNaN(x) THEN Return([rad |-> NaN])
    ELSE IF FLess(x, Float(0)) THEN Raise("ValueError")
    ELSE Return([rad |-> x])

\* r / s for two roots r = sqrt(p), s = sqrt(q) as Python floats.
RootDiv(r, s) ==
    IF IsFinite(s.rad) /\ s.rad[1] = 0 THEN Raise("ZeroDivisionError")
    ELSE Return([rad |-> FDivIEEE(r.rad, s.rad)])

(***************************************************************************)
(* fom                                                                     *)
(***************************************************************************)
RECURSIVE SeqMax(_)
SeqMax(s) ==
    IF Len(s) = 1 THEN s[1]
    ELSE LET m == SeqMax(Tail(s)) IN IF s[1] > m THEN s[1] ELSE m

RECURSIVE FSum(_)
FSum(s) == IF s = <<>> THEN Float(0) ELSE FAdd(s[1], FSum(Tail(s)))

\* hidden_data[clusters == i]
RECURSIVE ClusterData(_, _, _)
ClusterData(cl, hd, i) ==
    IF cl = <<>> THEN <<>>
    ELSE LET rest == ClusterData(Tail(cl), Tail(hd), i)
         IN  IF cl[1] = i THEN <<hd[1]>> \o rest ELSE rest

\* ndarray.mean(): the sum over the length; NaN (with a warning) when empty.
Mean(cluster_data) ==
    FDivIEEE(FSum([j \in 1..Len(cluster_data) |-> Float(cluster_data[j])]),
             Float(Len(cluster_data)))

\* ((cluster_data - cluster_mean) ** 2).sum()
SumSqDev(cluster_data, cluster_mean) ==
    FSum([j \in 1..Len(cluster_data) |->
            LET dv == FSub(Float(cluster_data[j]), cluster_mean)
            IN  FMul(dv, dv)])

\* The loop over range(num_clusters), from cluster i on.
RECURSIVE FomLoop(_, _, _, _, _, _)
FomLoop(cl, hd, num_clusters, i, ssd, num_clustered_genes) ==
    IF i >= num_clusters
    THEN [ssd |-> ssd, num_clustered_genes |-> num_clustered_genes]
    ELSE LET cluster_data == ClusterData(cl, hd, i)
             cluster_mean == Mean(cluster_data)
         IN  FomLoop(cl, hd, num_clusters, i + 1,
                     FAdd(ssd, SumSqDev(cluster_data, cluster_mean)),
                     num_clustered_genes + Len(cluster_data))

\* The tail of fom, from "result = sqrt(...)" on.
FomResult(ssd, num_clustered_genes, num_clusters, adj) ==
    LET q == IF num_clusters <= 0
             THEN FDiv(ssd, Float(num_clustered_genes))
             ELSE Return(FDivIEEE(ssd, Float(num_clustered_genes)))
    IN  IF ~Returned(q) THEN q
        ELSE LET root == Sqrt(q.value)
             IN  IF ~Returned(root) \/ ~adj THEN root
                 ELSE IF num_clustered_genes = num_clusters
                      THEN Raise("ClusterEvaluationError")
                 ELSE LET r == FDiv(Float(num_clustered_genes - num_clusters),
                                    Float(num_clustered_genes))
                          s == IF Returned(r) THEN Sqrt(r.value) ELSE r
                      IN  IF ~Returned(s) THEN s
                          ELSE RootDiv(root.value, s.value)

\* A plausible slip: n taken as the number of all genes, clustered or not.
FomCountsAllGenes(cl, hd, adj) ==
    IF cl = <<>> THEN Raise("ValueError")
    ELSE LET num_clusters == SeqMax(cl) + 1
             acc == FomLoop(cl, hd, num_clusters, 0, Float(0), 0)
         IN  FomResult(acc.ssd, Len(cl), num_clusters, adj)

Fom(cl, hd, adj) ==
    IF cl = <<>> THEN Raise("ValueError")
    ELSE LET num_clusters == SeqMax(cl) + 1
             acc == FomLoop(cl, hd, num_clusters, 0, Float(0), 0)
         IN  FomResult(acc.ssd, acc.num_clustered_genes, num_clusters, adj)

InitFom ==
    /\ pc = "fom"
    /\ \E n \in 0..MaxGenes :
         /\ clusters \in [1..n -> Labels]
         /\ hidden_data \in [1..n -> HiddenValues]
    /\ adjust \in BOOLEAN
    /\ X = <<>> /\ Y = <<>> /\ dmatrix = <<>> /\ data = <<>>
    /\ e = 0 /\ result = <<>> /\ calls = <<>>
    /\ outcome = NotCalled /\ swapped = NotCalled

CallFom ==
    /\ pc = "fom"
    /\ outcome' = Fom(clusters, hidden_data, adjust)
    /\ pc' = "done"
    /\ UNCHANGED <<clusters, hidden_data, adjust, X, Y, dmatrix, data, e,
                   result, calls, swapped>>

NextFom == CallFom

SpecFom == InitFom /\ [][NextFom]_vars

(***************************************************************************)
(* Properties of fom.                                                      *)
(***************************************************************************)
RECURSIVE SetSum(_, _)
SetSum(S, hd) ==
    IF S = {} THEN 0
    ELSE LET i == CHOOSE m \in S : TRUE IN hd[i] + SetSum(S \ {i}, hd)

RECURSIVE SetSumSq(_, _)
SetSumSq(S, hd) ==
    IF S = {} THEN 0
    ELSE LET i == CHOOSE m \in S : TRUE
         IN  hd[i] * hd[i] + SetSumSq(S \ {i}, hd)

Members(cl, c) == {i \in DOMAIN cl : cl[i] = c}
NumClustered(cl) == Cardinality({i \in DOMAIN cl : cl[i] >= 0})
NumClusterIds(cl) ==
    LET top == CHOOSE m \in Labels :
                 /\ \E i \in DOMAIN cl : cl[i] = m
                 /\ \A j \in DOMAIN cl : cl[j] <= m
    IN  top + 1
HasEmptyCluster(cl) == \E c \in 0 .. NumClusterIds(cl) - 1 : Members(cl, c) = {}

\* Sum of squared deviations of the members of cluster c from their mean:
\* sum(h^2) - sum(h)^2 / s for s members.
ClusterSSD(cl, hd, c) ==
    LET M == Members(cl, c)
        s == Cardinality(M)
    IN  IF s = 0 THEN Float(0)
        ELSE Rat(s * SetSumSq(M, hd) - SetSum(M, hd) * SetSum(M, hd), s)

RECURSIVE TotalSSD(_, _, _)
TotalSSD(cl, hd, c) ==
    IF c < 0 THEN Float(0)
    ELSE FAdd(ClusterSSD(cl, hd, c), TotalSSD(cl, hd, c - 1))

\* C1: with adjust=true, whenever the number of clustered items equals
\* k = max label + 1 (one item per cluster, or no clustered item at all so
\* that both are 0), fom ends with ClusterEvaluationError and with nothing else.
FomAdjustedDegenerateRaisesDomainError ==
    (/\ pc = "done"
     /\ adjust
     /\ Len(clusters) >= 1
     /\ NumClustered(clusters) = NumClusterIds(clusters))
    => Raised(outcome, "ClusterEvaluationError")

\* C2: on a partition with a clustered item and an empty cluster ID in
\* 0..k-1, fom does not crash: the empty cluster adds 0 to the sum of squared
\* deviations and 0 to the count, and the call ends with a finite number or
\* with ClusterEvaluationError.
FomEmptyClusterDoesNotCrash ==
    (/\ pc = "done"
     /\ Len(clusters) >= 1
     /\ NumClustered(clusters) >= 1
     /\ HasEmptyCluster(clusters))
    => /\ \A c \in 0 .. NumClusterIds(clusters) - 1 :
            Members(clusters, c) = {} =>
              LET cluster_data == ClusterData(clusters, hidden_data, c)
              IN  /\ Len(cluster_data) = 0
                  /\ SumSqDev(cluster_data, Mean(cluster_data)) = Float(0)
       /\ \/ Returned(outcome) /\ IsFinite(outcome.value.rad)
          \/ Raised(outcome, "ClusterEvaluationError")

RECURSIVE RandLoop(_, _, _, _, _, _)
RandLoop(Xc, Yc, i, j, agreements, total_pairs) ==
    LET n == Len(Xc)
    IN  IF i >= n - 1
        THEN [agreements |-> agreements, total_pairs |-> total_pairs]
        ELSE IF j >= n
             THEN RandLoop(Xc, Yc, i + 1, i + 2, agreements, total_pairs)
        ELSE IF \/ Xc[i + 1] = Xc[j + 1] /\ Yc[i + 1] = Yc[j + 1]
                \/ Xc[i + 1] # Xc[j + 1] /\ Yc[i + 1] # Yc[j + 1]
             THEN RandLoop(Xc, Yc, i, j + 1, agreements + 1, total_pairs + 1)
        ELSE RandLoop(Xc, Yc, i, j + 1, agreements, total_pairs + 1)

\* A plausible slip: the inner loop starts at j = i, so every item is also
\* paired with itself.
RandIndexSelfPairs(Xc, Yc) ==
    LET n == Len(Xc)
        P == {p \in (1..n) \X (1..n) : p[1] <= p[2] /\ p[1] <= n - 1}
        A == {p \in P : \/ Xc[p[1]] = Xc[p[2]] /\ Yc[p[1]] = Yc[p[2]]
                        \/ Xc[p[1]] # Xc[p[2]] /\ Yc[p[1]] # Yc[p[2]]}
    IN  FDiv(Float(Cardinality(A)), Float(Cardinality(P)))

\* A plausible slip: the second disjunct forgets to look at Y.
RandIndexOneSided(Xc, Yc) ==
    LET n == Len(Xc)
        P == {p \in (1..n) \X (1..n) : p[1] < p[2]}
        A == {p \in P : \/ Xc[p[1]] = Xc[p[2]] /\ Yc[p[1]] = Yc[p[2]]
                        \/ Xc[p[1]] # Xc[p[2]]}
    IN  FDiv(Float(Cardinality(A)), Float(Cardinality(P)))

\* rand_index is compiled by numba in nopython mode: the final division
\* raises ZeroDivisionError when there is no pair (n < 2).
RandIndex(Xc, Yc) ==
    LET acc == RandLoop(Xc, Yc, 0, 1, 0, 0)
    IN  FDiv(Float(acc.agreements), Float(acc.total_pairs))

InitRand ==
    /\ pc = "rand"
    /\ \E n \in 0..RandGenes :
         /\ X \in [1..n -> Labels]
         /\ Y \in [1..n -> Labels]
    /\ clusters = <<>> /\ hidden_data = <<>> /\ adjust = FALSE
    /\ dmatrix = <<>> /\ data = <<>>
    /\ e = 0 /\ result = <<>> /\ calls = <<>>
    /\ outcome = NotCalled /\ swapped = NotCalled

\* rand_index(X, Y)
CallRandIndex ==
    /\ pc = "rand"
    /\ outcome' = RandIndex(X, Y)
    /\ pc' = "swap"
    /\ UNCHANGED <<clusters, hidden_data, adjust, X, Y, dmatrix, data, e,
                   result, calls, swapped>>

\* rand_index(Y, X)
CallRandIndexSwapped ==
    /\ pc = "swap"
    /\ swapped' = RandIndex(Y, X)
    /\ pc' = "done"
    /\ UNCHANGED <<clusters, hidden_data, adjust, X, Y, dmatrix, data, e,
                   result, calls, outcome>>

NextRand == CallRandIndex \/ CallRandIndexSwapped

SpecRand == InitRand /\ [][NextRand]_vars

(***************************************************************************)
(* Properties of rand_index.                                               *)
(***************************************************************************)
\* The unordered pairs of distinct items on which the two partitions agree,
\* labels compared by plain equality.
AgreeingPairs(Xc, Yc) ==
    {S \in SUBSET (1..Len(Xc)) :
        /\ Cardinality(S) = 2
        /\ \E i \in S : \E j \in S \ {i} :
             \/ Xc[i] = Xc[j] /\ Yc[i] = Yc[j]
             \/ Xc[i] # Xc[j] /\ Yc[i] # Yc[j]}

RandIndexSymmetric == pc = "done" => outcome = swapped

RandIndexSymmetricReached ==
    /\ pc = "done"
    /\ X = <<0, 0, 1>>
    /\ Y = <<0, 1, -1>>
    /\ outcome = Return(<<2, 3>>)
    /\ swapped = Return(<<2, 3>>)

(***************************************************************************)
(* silhouette_widths                                                       *)
(*                                                                         *)
(* compute_widths is compiled by numba in nopython mode, whose default     *)
(* error model raises ZeroDivisionError on a zero divisor (FDiv).  Items   *)
(* are numbered from 1 here, cluster IDs from 0 as in the code.            *)
(***************************************************************************)
\* The pass "for j in range(n)" that builds dsum and dcount for object i.
RECURSIVE Accumulate(_, _, _, _, _, _)
Accumulate(cl, dm, i, j, dsum, dcount) ==
    IF j > Len(dm) THEN [dsum |-> dsum, dcount |-> dcount]
    ELSE IF i = j \/ cl[j] < 0
         THEN Accumulate(cl, dm, i, j + 1, dsum, dcount)
    ELSE Accumulate(cl, dm, i, j + 1,
                    [dsum EXCEPT ![cl[j]] = FAdd(@, Float(dm[i][j]))],
                    [dcount EXCEPT ![cl[j]] = @ + 1])

\* The pass "for c in range(k)" that calculates a and b, from cluster c on.
RECURSIVE MinLoop(_, _, _, _, _, _, _)
MinLoop(own, k, c, a, b, dsum, dcount) ==
    IF c >= k THEN Return([a |-> a, b |-> b])
    ELSE LET q == FDiv(dsum[c], Float(dcount[c]))
         IN  IF ~Returned(q) THEN q
             ELSE IF c = own
                  THEN MinLoop(own, k, c + 1, q.value, b, dsum, dcount)
             ELSE MinLoop(own, k, c + 1, a,
                          IF FLess(q.value, b) THEN q.value ELSE b,
                          dsum, dcount)

\* One iteration of "for i in range(n)": the width of object i.
Width(cl, dm, k, i) ==
    IF cl[i] < 0 THEN Return(Float(0))
    ELSE LET acc == Accumulate(cl, dm, i, 1,
                               [c \in 0 .. k - 1 |-> Float(0)],
                               [c \in 0 .. k - 1 |-> 0])
         IN  IF acc.dcount[cl[i]] = 0 THEN Return(Float(0))
             ELSE LET ab == MinLoop(cl[i], k, 0, NaN, Inf, acc.dsum, acc.dcount)
                  IN  IF ~Returned(ab) THEN ab
                      ELSE FDiv(FSub(ab.value.b, ab.value.a),
                                FMax(ab.value.a, ab.value.b))

RECURSIVE ComputeWidths(_, _, _, _, _)
ComputeWidths(dm, cl, k, i, widths) ==
    IF i > Len(dm) THEN Return(widths)
    ELSE LET w == Width(cl, dm, k, i)
         IN  IF ~Returned(w) THEN w
             ELSE ComputeWidths(dm, cl, k, i + 1, Append(widths, w.value))

SilhouetteWidths(cl, dm) ==
    IF cl = <<>> THEN Raise("ValueError")
    ELSE ComputeWidths(dm, cl, SeqMax(cl) + 1, 1, <<>>)

\* A symmetric distance matrix with a zero diagonal.
DistanceMatrices(n) ==
    LET Pairs == {p \in (1..n) \X (1..n) : p[1] < p[2]}
    IN  {[i \in 1..n |-> [j \in 1..n |->
            IF i = j THEN 0 ELSE IF i < j THEN u[<<i, j>>] ELSE u[<<j, i>>]]] :
         u \in [Pairs -> 0..MaxDist]}

InitSil ==
    /\ pc = "silhouette"
    /\ \E n \in 1..SilGenes :
         /\ clusters \in [1..n -> Labels]
         /\ dmatrix \in DistanceMatrices(n)
    /\ hidden_data = <<>> /\ adjust = FALSE
    /\ X = <<>> /\ Y = <<>> /\ data = <<>>
    /\ e = 0 /\ result = <<>> /\ calls = <<>>
    /\ outcome = NotCalled /\ swapped = NotCalled

CallSilhouetteWidths ==
    /\ pc = "silhouette"
    /\ outcome' = SilhouetteWidths(clusters, dmatrix)
    /\ pc' = "done"
    /\ UNCHANGED <<clusters, hidden_data, adjust, X, Y, dmatrix, data, e,
                   result, calls, swapped>>

NextSil == CallSilhouetteWidths

SpecSil == InitSil /\ [][NextSil]_vars

(***************************************************************************)
(* Properties of silhouette_widths.                                        *)
(***************************************************************************)
InUnitInterval(w) ==
    IsFinite(w) /\ ~FLess(w, Float(-1)) /\ ~FLess(Float(1), w)

RECURSIVE DistSum(_, _, _)
DistSum(dm, i, S) ==
    IF S = {} THEN 0
    ELSE LET j == CHOOSE m \in S : TRUE IN dm[i][j] + DistSum(dm, i, S \ {j})

\* Mean distance from item i to the members of cluster c other than i.
MeanDist(cl, dm, i, c) ==
    LET M == Members(cl, c) \ {i}
    IN  Rat(DistSum(dm, i, M), Cardinality(M))

OtherClusters(cl, i) ==
    {c \in 0 .. NumClusterIds(cl) - 1 : c # cl[i] /\ Members(cl, c) # {}}

SharesCluster(cl, i) == cl[i] >= 0 /\ Members(cl, cl[i]) \ {i} # {}

HasEmptyOtherCluster(cl, i) ==
    \E c \in 0 .. NumClusterIds(cl) - 1 : c # cl[i] /\ Members(cl, c) = {}

\* The width the spec defines for an item that shares its cluster and has a
\* non-empty other cluster: b is the least mean distance to such a cluster.
ExpectedWidth(cl, dm, i) ==
    LET a == MeanDist(cl, dm, i, cl[i])
        b == CHOOSE d \in {MeanDist(cl, dm, i, c) : c \in OtherClusters(cl, i)} :
               \A c \in OtherClusters(cl, i) : ~FLess(MeanDist(cl, dm, i, c), d)
    IN  FDivIEEE(FSub(b, a), FMax(a, b))

\* C3: for every input, silhouette_widths returns, for every item, a finite
\* width in [-1, 1], and exactly 0 for every unclustered item.
SilhouetteWidthsInUnitInterval ==
    pc = "done"
    => /\ Returned(outcome)
       /\ \A i \in DOMAIN clusters :
            /\ InUnitInterval(outcome.value[i])
            /\ clusters[i] < 0 => outcome.value[i] = Float(0)

\* C4: when all n >= 2 items are in the single cluster 0, every width is 0.
SilhouetteSingleClusterAllZero ==
    (/\ pc = "done"
     /\ Len(clusters) >= 2
     /\ \A i \in DOMAIN clusters : clusters[i] = 0)
    => /\ Returned(outcome)
       /\ \A i \in DOMAIN clusters : outcome.value[i] = Float(0)

\* C5: for an item that shares its cluster, an empty other cluster ID is
\* skipped when b is computed: the call does not fail, and b is the least
\* mean distance over the non-empty other clusters only.
SilhouetteEmptyClusterSkipped ==
    (/\ pc = "done"
     /\ \E i \in DOMAIN clusters :
          SharesCluster(clusters, i) /\ HasEmptyOtherCluster(clusters, i))
    => /\ Returned(outcome)
       /\ \A i \in DOMAIN clusters :
            (/\ SharesCluster(clusters, i)
             /\ HasEmptyOtherCluster(clusters, i)
             /\ OtherClusters(clusters, i) # {})
            => outcome.value[i] = ExpectedWidth(clusters, dmatrix, i)

(***************************************************************************)
(* aggregate_fom and its caller                                            *)
(*                                                                         *)
(* data is a sequence of n rows of m values.  The column index e is        *)
(* 0-based as in the code.  result is the running sum, kept as the         *)
(* sequence of the fom values added so far, in the order they were added.  *)
(* calls logs every invocation of the clustering function together with    *)
(* the fom evaluation that follows it.                                     *)
(***************************************************************************)
NumCols(dat) == Len(dat[1])

RECURSIVE SelectByMask(_, _)
SelectByMask(row, mask) ==
    IF row = <<>> THEN <<>>
    ELSE LET rest == SelectByMask(Tail(row), Tail(mask))
         IN  IF mask[1] THEN <<row[1]>> \o rest ELSE rest

\* A plausible slip: the last column is dropped whatever the mask says.
CompressDropsLast(dat, mask) ==
    [r \in 1..Len(dat) |-> SubSeq(dat[r], 1, Len(dat[r]) - 1)]

\* data.compress(mask, axis=1): a new matrix with the columns the mask keeps.
Compress(dat, mask) ==
    [r \in 1..Len(dat) |-> SelectByMask(dat[r], mask)]

\* data.take(col, axis=1)
Take(dat, col) == [r \in 1..Len(dat) |-> dat[r][col + 1]]

\* The partitions the injected clustering function may return for n genes:
\* all in cluster 0, one gene per cluster, no gene clustered.
ClusterFnResults(n) ==
    {[i \in 1..n |-> 0], [i \in 1..n |-> i - 1], [i \in 1..n |-> -1]}

InitAgg ==
    /\ pc = "aggregate"
    /\ \E n \in 1..AggGenes : \E m \in 0..MaxCols :
         \E cols \in [1..m -> DataColumns(n)] :
           data = [r \in 1..n |-> [c \in 1..m |-> cols[c][r]]]
    /\ adjust \in BOOLEAN
    /\ clusters = <<>> /\ hidden_data = <<>>
    /\ X = <<>> /\ Y = <<>> /\ dmatrix = <<>>
    /\ e = 0 /\ result = <<>> /\ calls = <<>>
    /\ outcome = NotCalled /\ swapped = NotCalled

\* A plausible slip: a failing column is skipped and the loop goes on.
AggregateStepSkipsFailed ==
    /\ pc = "aggregate"
    /\ e < NumCols(data)
    /\ \E cl \in ClusterFnResults(Len(data)) :
         LET data_to_cluster ==
                 Compress(data, [col \in 1..NumCols(data) |-> col - 1 # e])
             hd == Take(data, e)
             f == Fom(cl, hd, adjust)
         IN  /\ calls' = Append(calls, [data_to_cluster |-> data_to_cluster,
                                        clusters |-> cl,
                                        hidden_data |-> hd,
                                        fom |-> f])
             /\ result' = IF Returned(f) THEN Append(result, f.value)
                          ELSE result
             /\ e' = e + 1
             /\ UNCHANGED <<pc, outcome>>
    /\ UNCHANGED <<clusters, hidden_data, adjust, X, Y, dmatrix, data, swapped>>

\* One iteration of "for e in range(data.shape[1])".
AggregateStep ==
    /\ pc = "aggregate"
    /\ e < NumCols(data)
    /\ \E cl \in ClusterFnResults(Len(data)) :
         LET data_to_cluster ==
                 Compress(data, [col \in 1..NumCols(data) |-> col - 1 # e])
             hd == Take(data, e)
             f == Fom(cl, hd, adjust)
         IN  /\ calls' = Append(calls, [data_to_cluster |-> data_to_cluster,
                                        clusters |-> cl,
                                        hidden_data |-> hd,
                                        fom |-> f])
             /\ IF Returned(f)
                THEN /\ result' = Append(result, f.value)
                     /\ e' = e + 1
                     /\ UNCHANGED <<pc, outcome>>
                ELSE /\ outcome' = f
                     /\ pc' = "done"
                     /\ UNCHANGED <<result, e>>
    /\ UNCHANGED <<clusters, hidden_data, adjust, X, Y, dmatrix, data, swapped>>

\* "return result" once the loop is exhausted.
AggregateReturn ==
    /\ pc = "aggregate"
    /\ e >= NumCols(data)
    /\ outcome' = Return(result)
    /\ pc' = "done"
    /\ UNCHANGED <<clusters, hidden_data, adjust, X, Y, dmatrix, data, e,
                   result, calls, swapped>>

\* main: the try/except around aggregate_fom logs the value or the domain
\* error; any other exception is not caught.
MainReport ==
    /\ pc = "done"
    /\ pc' = IF Returned(outcome) THEN "logged_fom"
             ELSE IF Raised(outcome, "ClusterEvaluationError")
                  THEN "logged_cannot_calculate"
             ELSE "uncaught"
    /\ UNCHANGED <<clusters, hidden_data, adjust, X, Y, dmatrix, data, e,
                   result, calls, outcome, swapped>>

NextAgg == AggregateStep \/ AggregateReturn \/ MainReport

SpecAgg == InitAgg /\ [][NextAgg]_vars

(***************************************************************************)
(* Properties of aggregate_fom.                                            *)
(***************************************************************************)
\* Column c (1-based) of the matrix.
Column(dat, c) == [r \in 1..Len(dat) |-> dat[r][c]]

\* The matrix with exactly column c (1-based) removed, the others in order.
WithoutColumn(dat, c) ==
    [r \in 1..Len(dat) |->
        [j \in 1 .. NumCols(dat) - 1 |->
            IF j < c THEN dat[r][j] ELSE dat[r][j + 1]]]

\* C6: when no column fails, aggregate_fom on an n x m matrix invokes the
\* clustering function exactly m times, the e-th time on the matrix without
\* column e, evaluates fom on that partition with column e of the (unchanged)
\* input as hidden data, and returns the sum of those m values in column order.
AggregateFomCallsEachColumnOnce ==
    /\ \A c \in 1..Len(calls) :
         /\ c <= NumCols(data)
         /\ calls[c].data_to_cluster = WithoutColumn(data, c)
         /\ calls[c].hidden_data = Column(data, c)
         /\ calls[c].fom = Fom(calls[c].clusters, Column(data, c), adjust)
    /\ (pc # "aggregate" /\ Returned(outcome))
       => /\ Len(calls) = NumCols(data)
          /\ Len(outcome.value) = NumCols(data)
          /\ \A c \in 1..NumCols(data) :
               Return(outcome.value[c]) = calls[c].fom

AggregateFomThreeColumnsReached ==
    /\ pc = "done"
    /\ NumCols(data) = 3
    /\ Len(data) = 2
    /\ Column(data, 1) # Column(data, 2)
    /\ Column(data, 2) # Column(data, 3)
    /\ Column(data, 1) # Column(data, 3)
    /\ Returned(outcome)
    /\ Len(calls) = 3
    /\ \E c \in 1..3 : outcome.value[c].rad # Float(0)

\* C7: if fom raises the domain error for column e, aggregate_fom ends with
\* that same error, returns no partial sum, and invokes nothing for any
\* later column.
AggregateFomFailFast ==
    \A c \in 1..Len(calls) :
        Raised(calls[c].fom, "ClusterEvaluationError")
        => /\ c = Len(calls)
           /\ e = c - 1
           /\ pc # "aggregate"
           /\ outcome = calls[c].fom

AggregateFomFailedMidwayReached ==
    /\ pc = "logged_cannot_calculate"
    /\ NumCols(data) = 3
    /\ Len(calls) = 2
    /\ Len(result) = 1
    /\ Returned(calls[1].fom)
    /\ Raised(outcome, "ClusterEvaluationError")

====
